---- MODULE Spec2Model ----
(***************************************************************************)
(* Session lifecycle and balance deduction of the session-billing admin    *)
(* panel: startSession and endSession of src/components/                   *)
(* SessionManagement.tsx over the user_sessions and user_subscriptions     *)
(* tables of the schema migration.                                         *)
(*                                                                         *)
(* Every `await` of a store call is one step, so the steps of the          *)
(* operations of different browser tabs interleave at exactly the places   *)
(* where the code yields.  A step is the store call together with the      *)
(* synchronous continuation that follows its response.  The caller is one  *)
(* whom the row-level policies let read and write the rows it touches.     *)
(***************************************************************************)
EXTENDS Integers, Sequences, FiniteSets, TLC

\* ---------------------------------------------------------------- bounds
MaxSessions == 3
MaxOps == 3

\* two customers, two subscription rows, two browser tabs (staff members)
Users == {1, 2}
SubIds == {1, 2}
Tabs == {1, 2}

\* ------------------------------------------------------------- constants
MsPerMinute == 1000 * 60
MinutesPerHour == 60
MsPerDay == 24 * 60 * 60 * 1000
Null == 0 - 1

AlreadyActive == "User already has an active session"
NoSubscription == "User does not have an active subscription"
InsufficientBalance == "User has no remaining hours in their subscription"
StartOk == "Session started successfully"
StartFailed == "Failed to start session"
EndOk == "Session ended"
EndFailed == "Failed to end session"
NoToast == "none"

\* The clock readings the model distinguishes, in milliseconds after the
\* start of day 1, at which the panel is opened.  The times between them
\* are 0 ms, 1 ms, 60 minutes, 60 minutes and 1 ms (billed as 61 minutes),
\* 65 minutes less 1 ms, 65 minutes and 125 minutes.
ClockOffsets == {60 * MsPerMinute, 60 * MsPerMinute + 1, 125 * MsPerMinute}
ClockValues == {MsPerDay + o : o \in ClockOffsets}

VARIABLES now, sessions, subs, pc, loc, toast, webhook,
          startingSession, endingSession, ops

\* History, read by no guard and written to no table: the balances the run
\* began with, and whether every end so far was the first end of an active
\* session and met no store error.  The local alreadyCompleted is history
\* too: whether the session update of the operation found its row completed.
VARIABLES initialHours, clean

vars == <<now, sessions, subs, pc, loc, toast, webhook,
          startingSession, endingSession, ops, initialHours, clean>>

\* ---------------------------------------------------------------- helpers
\* Math.ceil(a / b) for b > 0
CeilDiv(a, b) == 0 - ((0 - a) \div b)

\* a balance written without the clamp
Max0Unclamped(x) == x

\* Math.max(0, x)
Max0(x) == IF x > 0 THEN x ELSE 0

\* new Date().toISOString().split('T')[0], as the number of the UTC day
Today(t) == t \div MsPerDay

\* the acting staff member of a tab (useAuth().user.id)
StaffId(p) == Cardinality(Users) + p

SessionIds == DOMAIN sessions

\* the check made on the completed rows instead of the active ones
ActiveRowsWrongStatus(u) ==
    {i \in SessionIds : sessions[i].user_id = u /\ sessions[i].status = "completed"}

\* rows of user_sessions with user_id = u and status = 'active'
ActiveRows(u) ==
    {i \in SessionIds : sessions[i].user_id = u /\ sessions[i].status = "active"}

\* the query without the filter on end_date
ValidSubsAnyDate(u, today) ==
    {k \in SubIds : subs[k].user_id = u /\ subs[k].status = "active"}

\* rows of user_subscriptions with user_id = u, status = 'active' and
\* end_date >= today
ValidSubs(u, today) ==
    {k \in SubIds : /\ subs[k].user_id = u
                    /\ subs[k].status = "active"
                    /\ subs[k].end_date >= today}

\* .single(): the row when the query matches exactly one row; otherwise no
\* data and the error PGRST116 (no rows, or more than one row)
Single(rows) == IF Cardinality(rows) = 1 THEN CHOOSE r \in rows : TRUE ELSE Null

NoLocals ==
    [op |-> "none", userId |-> Null, sessionId |-> Null,
     subscriptionId |-> Null, hours_remaining |-> Null,
     user_subscription_id |-> Null, start_time |-> Null,
     endTime |-> Null, durationMinutes |-> Null, hoursDeducted |-> Null,
     newHoursRemaining |-> Null, alreadyCompleted |-> FALSE]

\* subscription.hours_remaining <= 0, tested as < 0
NoHoursLeftStrict(hoursRemaining) == hoursRemaining < 0

\* subscription.hours_remaining <= 0
NoHoursLeft(hoursRemaining) == hoursRemaining <= 0

\* a row inserted with the wrong status
NewSessionCompleted(u, k, p, t) ==
    [user_id |-> u, user_subscription_id |-> k, start_time |-> t,
     end_time |-> Null, duration_minutes |-> Null, hours_deducted |-> 0,
     status |-> "completed", started_by |-> StaffId(p), ended_by |-> Null]

\* the row of the insert; start_time, hours_deducted and the null columns
\* are the defaults of the table
NewSession(u, k, p, t) ==
    [user_id |-> u, user_subscription_id |-> k, start_time |-> t,
     end_time |-> Null, duration_minutes |-> Null, hours_deducted |-> 0,
     status |-> "active", started_by |-> StaffId(p), ended_by |-> Null]

Idle == \A p \in Tabs : pc[p] = "idle"

\* ------------------------------------------------------------------- Init
\* The store when the panel is opened (day 1).  Subscription 1 belongs to
\* user 1 and is valid, out of date or expired; subscription 2 is a second
\* one of user 1 or the one of user 2, so that a user has none, one or two.
Sub1Rows ==
    {[user_id |-> 1, hours_remaining |-> 5, end_date |-> 1, status |-> "active"],
     [user_id |-> 1, hours_remaining |-> 1, end_date |-> 1, status |-> "active"],
     [user_id |-> 1, hours_remaining |-> 5, end_date |-> 0, status |-> "active"],
     [user_id |-> 1, hours_remaining |-> 5, end_date |-> 1, status |-> "expired"]}

Sub2Rows ==
    {[user_id |-> 1, hours_remaining |-> 5, end_date |-> 1, status |-> "active"],
     [user_id |-> 2, hours_remaining |-> 0, end_date |-> 1, status |-> "active"],
     [user_id |-> 2, hours_remaining |-> 1, end_date |-> 1, status |-> "active"],
     [user_id |-> 2, hours_remaining |-> 5, end_date |-> 1, status |-> "cancelled"]}

\* one session of user 1 that is active since the start of the day, linked
\* to subscription 1 or to none (its subscription was deleted: ON DELETE
\* SET NULL); user 2 has no session yet
InitSessions ==
    {<<NewSession(1, k, 1, MsPerDay)>> : k \in {1, Null}}

Init ==
    /\ now = MsPerDay
    /\ sessions \in InitSessions
    /\ subs \in [SubIds -> Sub1Rows \cup Sub2Rows]
    /\ subs[1] \in Sub1Rows
    /\ subs[2] \in Sub2Rows
    /\ pc = [p \in Tabs |-> "idle"]
    /\ loc = [p \in Tabs |-> NoLocals]
    /\ toast = [p \in Tabs |-> NoToast]
    /\ webhook = [p \in Tabs |-> "none"]
    /\ startingSession = [p \in Tabs |-> Null]
    /\ endingSession = [p \in Tabs |-> Null]
    /\ ops = 0
    /\ initialHours = [k \in SubIds |-> subs[k].hours_remaining]
    /\ clean = TRUE

\* ------------------------------------------------------------------ clock
\* a reading of the clock: any value not before the last reading
Reading(t) == t \in ClockValues /\ t >= now

\* ----------------------------------------------------------- startSession
\* the throw of a store error, caught: toast.error, finally
StartThrow(p) ==
    /\ toast' = [toast EXCEPT ![p] = StartFailed]
    /\ loc' = [loc EXCEPT ![p] = NoLocals]
    /\ pc' = [pc EXCEPT ![p] = "idle"]
    /\ startingSession' = [startingSession EXCEPT ![p] = Null]

\* a return that skips the finally block
StartReturnKeepingMarker(p, msg) ==
    /\ toast' = [toast EXCEPT ![p] = msg]
    /\ loc' = [loc EXCEPT ![p] = NoLocals]
    /\ pc' = [pc EXCEPT ![p] = "idle"]
    /\ UNCHANGED startingSession

\* an early return with a message: toast.error, finally
StartReturn(p, msg) ==
    /\ toast' = [toast EXCEPT ![p] = msg]
    /\ loc' = [loc EXCEPT ![p] = NoLocals]
    /\ pc' = [pc EXCEPT ![p] = "idle"]
    /\ startingSession' = [startingSession EXCEPT ![p] = Null]

StartBegin(p, u) ==
    /\ pc[p] = "idle"
    /\ ops < MaxOps
    /\ ops' = ops + 1
    /\ startingSession' = [startingSession EXCEPT ![p] = u]
    /\ loc' = [loc EXCEPT ![p] = [NoLocals EXCEPT !.op = "start", !.userId = u]]
    /\ toast' = [toast EXCEPT ![p] = NoToast]
    /\ webhook' = [webhook EXCEPT ![p] = "none"]
    /\ pc' = [pc EXCEPT ![p] = "startCheck"]
    /\ UNCHANGED <<now, sessions, subs, endingSession>>
    /\ UNCHANGED <<initialHours, clean>>

\* the query for an active session of the user, and the two tests on it
StartCheck(p) ==
    /\ pc[p] = "startCheck"
    /\ LET existingSession == Single(ActiveRows(loc[p].userId)) IN
         IF existingSession # Null
           THEN StartReturn(p, AlreadyActive)
           ELSE /\ pc' = [pc EXCEPT ![p] = "startSub"]
                /\ UNCHANGED <<loc, toast, startingSession>>
    /\ UNCHANGED <<now, sessions, subs, webhook, endingSession, ops>>
    /\ UNCHANGED <<initialHours, clean>>

\* the query for the user's active subscription, and the tests on it
StartSub(p) ==
    /\ pc[p] = "startSub"
    /\ LET subscription == Single(ValidSubs(loc[p].userId, Today(now))) IN
         IF subscription = Null
           THEN StartReturn(p, NoSubscription)
           ELSE IF NoHoursLeft(subs[subscription].hours_remaining)
                  THEN StartReturn(p, InsufficientBalance)
                  ELSE /\ loc' = [loc EXCEPT
                              ![p].subscriptionId = subscription,
                              ![p].hours_remaining =
                                  subs[subscription].hours_remaining]
                       /\ pc' = [pc EXCEPT ![p] = "startInsert"]
                       /\ UNCHANGED <<toast, startingSession>>
    /\ UNCHANGED <<now, sessions, subs, webhook, endingSession, ops>>
    /\ UNCHANGED <<initialHours, clean>>

\* an insert that also takes a first hour from the subscription
StartInsertReserving(p) ==
    /\ pc[p] = "startInsert"
    /\ Len(sessions) < MaxSessions
    /\ \E t \in ClockValues :
         /\ Reading(t)
         /\ now' = t
         /\ sessions' = Append(sessions,
                NewSession(loc[p].userId, loc[p].subscriptionId, p, t))
    /\ subs' = [subs EXCEPT ![loc[p].subscriptionId].hours_remaining = @ - 1]
    /\ StartReturn(p, StartOk)
    /\ UNCHANGED <<webhook, endingSession, ops>>
    /\ UNCHANGED <<initialHours, clean>>

\* the insert of the session row
StartInsert(p) ==
    /\ pc[p] = "startInsert"
    /\ Len(sessions) < MaxSessions
    /\ \E t \in ClockValues :
         /\ Reading(t)
         /\ now' = t
         /\ sessions' = Append(sessions,
                NewSession(loc[p].userId, loc[p].subscriptionId, p, t))
    /\ StartReturn(p, StartOk)
    /\ UNCHANGED <<subs, webhook, endingSession, ops>>
    /\ UNCHANGED <<initialHours, clean>>

\* an insert that writes its row and then reports an error
StartStoreErrorHalfApplied(p) ==
    /\ pc[p] \in {"startCheck", "startSub", "startInsert"}
    /\ StartThrow(p)
    /\ sessions' = IF pc[p] = "startInsert" /\ Len(sessions) < MaxSessions
                     THEN Append(sessions,
                            NewSession(loc[p].userId, loc[p].subscriptionId, p, now))
                     ELSE sessions
    /\ UNCHANGED <<now, subs, webhook, endingSession, ops>>
    /\ UNCHANGED <<initialHours, clean>>

\* a store call of startSession that fails with an error other than PGRST116
StartStoreError(p) ==
    /\ pc[p] \in {"startCheck", "startSub", "startInsert"}
    /\ StartThrow(p)
    /\ UNCHANGED <<now, sessions, subs, webhook, endingSession, ops>>
    /\ UNCHANGED <<initialHours, clean>>

\* ------------------------------------------------------------- endSession
\* an update that reopens a row that is already completed
CompletedFieldsToggle(row, endTime, durationMinutes, hoursDeducted, staff) ==
    [row EXCEPT !.end_time = endTime,
                !.duration_minutes = durationMinutes,
                !.hours_deducted = hoursDeducted,
                !.status = IF row.status = "active" THEN "completed" ELSE "active",
                !.ended_by = staff]

\* the fields written by the update of the session row
CompletedFields(row, endTime, durationMinutes, hoursDeducted, staff) ==
    [row EXCEPT !.end_time = endTime,
                !.duration_minutes = durationMinutes,
                !.hours_deducted = hoursDeducted,
                !.status = "completed",
                !.ended_by = staff]

\* the duration rounded down
DurationMinutesFloor(startTime, endTime) == (endTime - startTime) \div MsPerMinute

\* Math.ceil((endTime.getTime() - startTime.getTime()) / (1000 * 60))
DurationMinutes(startTime, endTime) == CeilDiv(endTime - startTime, MsPerMinute)

\* the hours rounded down
HoursDeductedFloor(durationMinutes) == durationMinutes \div MinutesPerHour

\* Math.ceil(durationMinutes / 60)
HoursDeducted(durationMinutes) == CeilDiv(durationMinutes, MinutesPerHour)

\* the new balance without the clamp
NewHoursRemainingUnclamped(hoursRemaining, hoursDeducted) ==
    hoursRemaining - hoursDeducted

\* Math.max(0, session.user_subscription.hours_remaining - hoursDeducted)
NewHoursRemaining(hoursRemaining, hoursDeducted) ==
    Max0(hoursRemaining - hoursDeducted)

\* a failure of the notification reported as a failure of the operation
AfterWebhookFatal(failed) == IF failed THEN EndFailed ELSE EndOk

\* the message after the notification step, whatever its outcome
AfterWebhook(failed) == EndOk

\* a session id that matches no row: .single() answers it with PGRST116
NoSuchSession == 0

\* the throw of a store error, caught: toast.error, finally
EndThrow(p) ==
    /\ toast' = [toast EXCEPT ![p] = EndFailed]
    /\ loc' = [loc EXCEPT ![p] = NoLocals]
    /\ pc' = [pc EXCEPT ![p] = "idle"]
    /\ endingSession' = [endingSession EXCEPT ![p] = Null]

\* The End button of a row of the tab's list of active sessions.  The list
\* is the result of an earlier fetch; every row was active when inserted,
\* so any row can be in the list of a tab that has not fetched since, and
\* so can a row that is gone from the table.
EndBegin(p, sid) ==
    /\ pc[p] = "idle"
    /\ sid \in SessionIds \cup {NoSuchSession}
    /\ ops < MaxOps
    /\ ops' = ops + 1
    /\ endingSession' = [endingSession EXCEPT ![p] = sid]
    /\ loc' = [loc EXCEPT ![p] = [NoLocals EXCEPT !.op = "end", !.sessionId = sid]]
    /\ toast' = [toast EXCEPT ![p] = NoToast]
    /\ webhook' = [webhook EXCEPT ![p] = "none"]
    /\ pc' = [pc EXCEPT ![p] = "endLoad"]
    /\ UNCHANGED <<now, sessions, subs, startingSession>>
    /\ clean' = (/\ clean
                 /\ sid \in SessionIds
                 /\ sessions[sid].status = "active"
                 /\ \A q \in Tabs : loc[q].sessionId # sid)
    /\ UNCHANGED initialHours

\* the load of the session with its subscription; then the clock is read
\* and the duration and the hours are computed
EndLoad(p) ==
    /\ pc[p] = "endLoad"
    /\ loc[p].sessionId \in SessionIds
    /\ LET session == sessions[loc[p].sessionId] IN
       \E t \in ClockValues :
         /\ Reading(t)
         /\ now' = t
         /\ loc' = [loc EXCEPT
                ![p].userId = session.user_id,
                ![p].user_subscription_id = session.user_subscription_id,
                ![p].start_time = session.start_time,
                ![p].hours_remaining =
                    IF session.user_subscription_id # Null
                      THEN subs[session.user_subscription_id].hours_remaining
                      ELSE Null,
                ![p].endTime = t,
                ![p].durationMinutes = DurationMinutes(session.start_time, t),
                ![p].hoursDeducted =
                    HoursDeducted(DurationMinutes(session.start_time, t))]
    /\ pc' = [pc EXCEPT ![p] = "endUpdate"]
    /\ UNCHANGED <<sessions, subs, toast, webhook, startingSession,
                   endingSession, ops>>
    /\ UNCHANGED <<initialHours, clean>>

\* the update of the session row; then the new balance is computed
EndUpdate(p) ==
    /\ pc[p] = "endUpdate"
    /\ sessions' = [sessions EXCEPT ![loc[p].sessionId] =
           CompletedFields(@, loc[p].endTime, loc[p].durationMinutes,
                           loc[p].hoursDeducted, StaffId(p))]
    /\ IF loc[p].user_subscription_id # Null
         THEN /\ loc' = [loc EXCEPT
                     ![p].newHoursRemaining =
                         NewHoursRemaining(loc[p].hours_remaining,
                                           loc[p].hoursDeducted),
                     ![p].alreadyCompleted =
                         (sessions[loc[p].sessionId].status = "completed")]
              /\ pc' = [pc EXCEPT ![p] = "endSub"]
         ELSE /\ pc' = [pc EXCEPT ![p] = "endWebhook"]
              /\ UNCHANGED loc
    /\ UNCHANGED <<now, subs, toast, webhook, startingSession,
                   endingSession, ops>>
    /\ UNCHANGED <<initialHours, clean>>

\* an update of hours_remaining without the filter on the subscription's id
EndSubAll(p) ==
    /\ pc[p] = "endSub"
    /\ subs' = [k \in SubIds |->
                  [subs[k] EXCEPT !.hours_remaining = loc[p].newHoursRemaining]]
    /\ pc' = [pc EXCEPT ![p] = "endWebhook"]
    /\ UNCHANGED <<now, sessions, loc, toast, webhook, startingSession,
                   endingSession, ops>>
    /\ UNCHANGED <<initialHours, clean>>

\* the update of the linked subscription's hours_remaining
EndSub(p) ==
    /\ pc[p] = "endSub"
    /\ subs' = [subs EXCEPT ![loc[p].user_subscription_id].hours_remaining =
                    loc[p].newHoursRemaining]
    /\ pc' = [pc EXCEPT ![p] = "endWebhook"]
    /\ UNCHANGED <<now, sessions, loc, toast, webhook, startingSession,
                   endingSession, ops>>
    /\ UNCHANGED <<initialHours, clean>>

\* a POST that is sent again after it failed
EndWebhookRetrying(p) ==
    /\ pc[p] = "endWebhook"
    /\ \E failed \in BOOLEAN :
         /\ webhook' = [webhook EXCEPT ![p] = IF failed THEN "failed" ELSE "sent"]
         /\ IF failed /\ webhook[p] = "none"
              THEN UNCHANGED <<toast, loc, pc, endingSession>>
              ELSE /\ toast' = [toast EXCEPT ![p] = AfterWebhook(failed)]
                   /\ loc' = [loc EXCEPT ![p] = NoLocals]
                   /\ pc' = [pc EXCEPT ![p] = "idle"]
                   /\ endingSession' = [endingSession EXCEPT ![p] = Null]
    /\ UNCHANGED <<now, sessions, subs, startingSession, ops>>
    /\ UNCHANGED <<initialHours, clean>>

\* the POST to the webhook, which succeeds or fails; then toast.success
EndWebhook(p) ==
    /\ pc[p] = "endWebhook"
    /\ \E failed \in BOOLEAN :
         /\ webhook' = [webhook EXCEPT ![p] = IF failed THEN "failed" ELSE "sent"]
         /\ toast' = [toast EXCEPT ![p] = AfterWebhook(failed)]
    /\ loc' = [loc EXCEPT ![p] = NoLocals]
    /\ pc' = [pc EXCEPT ![p] = "idle"]
    /\ endingSession' = [endingSession EXCEPT ![p] = Null]
    /\ UNCHANGED <<now, sessions, subs, startingSession, ops>>
    /\ UNCHANGED <<initialHours, clean>>

\* a failure of the subscription update that is answered by reopening the
\* session
EndStoreErrorRollback(p) ==
    /\ pc[p] \in {"endLoad", "endUpdate", "endSub"}
    /\ EndThrow(p)
    /\ sessions' = IF pc[p] = "endSub"
                     THEN [sessions EXCEPT ![loc[p].sessionId].status = "active"]
                     ELSE sessions
    /\ UNCHANGED <<now, subs, webhook, startingSession, ops>>
    /\ clean' = FALSE
    /\ UNCHANGED initialHours

\* a store call of endSession that fails: the call changes nothing in the
\* store and its error is thrown (for the load also PGRST116, when the row
\* is gone)
EndStoreError(p) ==
    /\ pc[p] \in {"endLoad", "endUpdate", "endSub"}
    /\ EndThrow(p)
    /\ UNCHANGED <<now, sessions, subs, webhook, startingSession, ops>>
    /\ clean' = FALSE
    /\ UNCHANGED initialHours

\* ------------------------------------------------------------------- Next
Next ==
    \/ \E p \in Tabs, u \in Users : StartBegin(p, u)
    \/ \E p \in Tabs : StartCheck(p)
    \/ \E p \in Tabs : StartSub(p)
    \/ \E p \in Tabs : StartInsert(p)
    \/ \E p \in Tabs : StartStoreError(p)
    \/ \E p \in Tabs, sid \in 0..MaxSessions : EndBegin(p, sid)
    \/ \E p \in Tabs : EndLoad(p)
    \/ \E p \in Tabs : EndUpdate(p)
    \/ \E p \in Tabs : EndSub(p)
    \/ \E p \in Tabs : EndWebhook(p)
    \/ \E p \in Tabs : EndStoreError(p)

Spec == Init /\ [][Next]_vars

\* the operations one at a time: an operation begins only when no other
\* is in flight
NextSeq ==
    \/ \E p \in Tabs, u \in Users : Idle /\ StartBegin(p, u)
    \/ \E p \in Tabs : StartCheck(p)
    \/ \E p \in Tabs : StartSub(p)
    \/ \E p \in Tabs : StartInsert(p)
    \/ \E p \in Tabs : StartStoreError(p)
    \/ \E p \in Tabs, sid \in 0..MaxSessions : Idle /\ EndBegin(p, sid)
    \/ \E p \in Tabs : EndLoad(p)
    \/ \E p \in Tabs : EndUpdate(p)
    \/ \E p \in Tabs : EndSub(p)
    \/ \E p \in Tabs : EndWebhook(p)
    \/ \E p \in Tabs : EndStoreError(p)

SpecSeq == Init /\ [][NextSeq]_vars

\* the next step of the operation in flight in tab p: the store call or the
\* POST it awaits returns or fails
StepOf(p) ==
    \/ StartCheck(p)
    \/ StartSub(p)
    \/ StartInsert(p)
    \/ StartStoreError(p)
    \/ EndLoad(p)
    \/ EndUpdate(p)
    \/ EndSub(p)
    \/ EndWebhook(p)
    \/ EndStoreError(p)

\* The stores of the runs checked for termination: user 1 with a valid
\* subscription of 5 hours and an active session linked to it, and user 2
\* with a subscription of 1 hour (a start that succeeds and, once the hour
\* is used, one refused for the balance) or with a cancelled one (a start
\* refused for the subscription).
InitFair ==
    /\ Init
    /\ subs[1].hours_remaining = 5
    /\ subs[1].end_date = 1
    /\ subs[1].status = "active"
    /\ sessions[1].user_subscription_id = 1
    /\ subs[2].user_id = 2
    /\ subs[2].hours_remaining # 0

\* every awaited call eventually returns or fails
SpecFair == InitFair /\ [][Next]_vars /\ \A p \in Tabs : WF_vars(StepOf(p))

\* ================================================================ claims
\* what the claims speak of, stated on the tables themselves
ActiveOf(ss, u) ==
    {i \in DOMAIN ss : ss[i].user_id = u /\ ss[i].status = "active"}

ValidOn(u, day) ==
    {k \in SubIds : /\ subs[k].user_id = u
                    /\ subs[k].status = "active"
                    /\ subs[k].end_date >= day}

DayOf(t) == t \div (24 * 60 * 60 * 1000)

\* the step of tab p that answers the store call made at `at`, other than
\* with a store error
Answers(p, at) ==
    /\ pc[p] = at
    /\ pc'[p] # at
    /\ toast'[p] \notin {StartFailed, EndFailed}

\* C1: whenever the user of a start operation has a session with status
\* 'active', the answer to the operation's check (no store error) reports
\* 'User already has an active session' and the session rows stay as they
\* are.
C1_AlreadyActive ==
    [][\A p \in Tabs :
          (Answers(p, "startCheck") /\ ActiveOf(sessions, loc[p].userId) # {})
          => (toast'[p] = AlreadyActive /\ sessions' = sessions)]_vars

\* C2: every completed session row has duration_minutes = ceil((end_time -
\* start_time) / 60 s) and hours_deducted = ceil(duration_minutes / 60), the
\* ceiling being the least integer not below the quotient; 60 minutes are
\* billed as 1 hour and 61 minutes as 2 hours.
C2_DurationAndHours ==
    \A i \in DOMAIN sessions :
       (sessions[i].status = "completed"
          /\ sessions[i].end_time >= sessions[i].start_time)
       => LET e == sessions[i].end_time - sessions[i].start_time
              m == sessions[i].duration_minutes
              h == sessions[i].hours_deducted
          IN  /\ m * 60 * 1000 >= e
              /\ (m - 1) * 60 * 1000 < e
              /\ h * 60 >= m
              /\ (h - 1) * 60 < m
              /\ (m = 60 => h = 1)
              /\ (m = 61 => h = 2)

\* C2 witness: a session ended 60 minutes and 1 ms after its start, stored
\* with 61 minutes and 2 hours
C2_Witness ==
    \E i \in DOMAIN sessions :
       /\ sessions[i].status = "completed"
       /\ sessions[i].end_time - sessions[i].start_time = 60 * 60 * 1000 + 1
       /\ sessions[i].duration_minutes = 61
       /\ sessions[i].hours_deducted = 2

\* C3: with the operations one at a time, the update of the linked
\* subscription by an end operation leaves hours_remaining = max(0, the
\* hours_remaining before - the hours_deducted stored on the session); 5
\* hours and 61 minutes give 2 hours deducted and 3 remaining, 1 hour and
\* 125 minutes give 3 hours deducted and 0 remaining.
C3_BalanceAfterEnd ==
    [][\A p \in Tabs :
          Answers(p, "endSub")
          => LET row == sessions[loc[p].sessionId]
                 k == row.user_subscription_id
                 prev == subs[k].hours_remaining
                 h == row.hours_deducted
                 m == row.duration_minutes
                 new == subs'[k].hours_remaining
             IN  /\ new = (IF prev - h > 0 THEN prev - h ELSE 0)
                 /\ (prev = 5 /\ m = 61 => h = 2 /\ new = 3)
                 /\ (prev = 1 /\ m = 125 => h = 3 /\ new = 0)]_vars

\* C3 witness: the end of a 61-minute session has brought a balance of 5
\* hours to 3
C3_Witness ==
    \E p \in Tabs :
       /\ pc[p] = "endWebhook"
       /\ loc[p].user_subscription_id # Null
       /\ loc[p].hours_remaining = 5
       /\ loc[p].durationMinutes = 61
       /\ sessions[loc[p].sessionId].hours_deducted = 2
       /\ subs[loc[p].user_subscription_id].hours_remaining = 3

\* C4: hours_remaining of every subscription is at least 0 in every
\* reachable state, whatever the interleaving of the operations.
C4_NeverNegative ==
    \A k \in SubIds : subs[k].hours_remaining >= 0

\* C4 witness: an end operation has deducted more hours than the
\* subscription had, and the balance is 0
C4_Witness ==
    \E p \in Tabs :
       /\ pc[p] = "endWebhook"
       /\ loc[p].user_subscription_id # Null
       /\ loc[p].hoursDeducted > loc[p].hours_remaining
       /\ subs[loc[p].user_subscription_id].hours_remaining = 0

\* C5: a start operation for a user without an active session whose only
\* valid subscription has hours_remaining <= 0 answers its subscription
\* query (no store error) with 'User has no remaining hours in their
\* subscription', ends there and inserts no row.
C5_InsufficientBalance ==
    [][\A p \in Tabs :
          (/\ Answers(p, "startSub")
           /\ ActiveOf(sessions, loc[p].userId) = {}
           /\ \E k \in SubIds :
                 /\ ValidOn(loc[p].userId, DayOf(now)) = {k}
                 /\ subs[k].hours_remaining <= 0)
          => (/\ toast'[p] = InsufficientBalance
              /\ pc'[p] = "idle"
              /\ sessions' = sessions)]_vars

\* C5 witness: the first operation, a start, was refused for want of hours,
\* and a user without an active session has one valid subscription, with no
\* hours left
C5_Witness ==
    /\ ops = 1
    /\ \E p \in Tabs : pc[p] = "idle" /\ toast[p] = InsufficientBalance
    /\ \E u \in Users :
          /\ ActiveOf(sessions, u) = {}
          /\ \E k \in SubIds :
                ValidOn(u, DayOf(now)) = {k} /\ subs[k].hours_remaining = 0

\* C6: the notification step of an end operation changes no session row and
\* no subscription and is followed by the message of success, also when the
\* call fails: the session is still completed and the operation does not
\* report 'Failed to end session'.
C6_WebhookFailureSwallowed ==
    [][\A p \in Tabs :
          (pc[p] = "endWebhook" /\ pc'[p] # "endWebhook"
             /\ webhook'[p] = "failed")
          => (/\ sessions' = sessions
              /\ subs' = subs
              /\ sessions[loc[p].sessionId].status = "completed"
              /\ toast'[p] = EndOk)]_vars

\* C6 witness: an end operation whose notification failed has reported
\* success
C6_Witness ==
    \E p \in Tabs :
       pc[p] = "idle" /\ webhook[p] = "failed" /\ toast[p] = EndOk

\* C7: the insert of a start operation adds an active row for its user
\* whatever rows the table holds (nothing but the earlier check stands in
\* its way), so two start operations that both pass the check before either
\* inserts leave two active rows of one user.
C7_InsertUnchecked ==
    [][\A p \in Tabs :
          (pc[p] = "startInsert" /\ pc'[p] = "idle" /\ toast'[p] = StartOk)
          => ActiveOf(sessions', loc[p].userId)
               = ActiveOf(sessions, loc[p].userId) \cup {Len(sessions) + 1}]_vars

\* C7 witness: after two operations, both of them starts that succeeded in
\* different tabs, a user has two active sessions
C7_Witness ==
    /\ ops = 2
    /\ \A p \in Tabs : pc[p] = "idle" /\ toast[p] = StartOk
    /\ \E u \in Users : Cardinality(ActiveOf(sessions, u)) = 2

\* C8: with the operations one at a time, every user has at most one
\* session with status 'active' in every reachable state.
C8_AtMostOneActive ==
    \A u \in Users : Cardinality(ActiveOf(sessions, u)) <= 1

\* C8 witness: a start was refused because the user has an active session
C8_Witness ==
    /\ \E p \in Tabs : pc[p] = "idle" /\ toast[p] = AlreadyActive
    /\ \E u \in Users : Cardinality(ActiveOf(sessions, u)) = 1

\* C9: a row is inserted with status 'active', no row disappears, a status
\* changes only from 'active' to 'completed', and a completed row stays
\* completed.
C9_OnlyActiveToCompleted ==
    [][/\ DOMAIN sessions \subseteq DOMAIN sessions'
       /\ \A i \in DOMAIN sessions' \ DOMAIN sessions :
             sessions'[i].status = "active"
       /\ \A i \in DOMAIN sessions :
             /\ sessions[i].status = "completed"
                  => sessions'[i].status = "completed"
             /\ sessions'[i].status # sessions[i].status
                  => (sessions[i].status = "active"
                        /\ sessions'[i].status = "completed")]_vars

\* C9 witness: a row that an end operation in flight has completed has
\* since been written by the end operation of another tab, and is completed
C9_Witness ==
    \E p \in Tabs :
       /\ pc[p] \in {"endSub", "endWebhook"}
       /\ sessions[loc[p].sessionId].status = "completed"
       /\ sessions[loc[p].sessionId].ended_by # StaffId(p)

\* C10: a start operation for a user without an active session and without
\* a subscription that has status 'active' and end_date >= today answers
\* its subscription query (no store error) with 'User does not have an
\* active subscription', ends there and inserts no row.
C10_NoSubscription ==
    [][\A p \in Tabs :
          (/\ Answers(p, "startSub")
           /\ ActiveOf(sessions, loc[p].userId) = {}
           /\ ValidOn(loc[p].userId, DayOf(now)) = {})
          => (/\ toast'[p] = NoSubscription
              /\ pc'[p] = "idle"
              /\ sessions' = sessions)]_vars

\* C10 witness: the first operation, a start, was refused for want of a
\* subscription, and a user without an active session has a subscription,
\* but none that is valid
C10_Witness ==
    /\ ops = 1
    /\ \E p \in Tabs : pc[p] = "idle" /\ toast[p] = NoSubscription
    /\ \E u \in Users :
          /\ ActiveOf(sessions, u) = {}
          /\ ValidOn(u, DayOf(now)) = {}
          /\ \E k \in SubIds : subs[k].user_id = u

\* C11: when the subscription update of an end operation fails, after its
\* session update succeeded, nothing is rolled back: the session stays
\* completed with its duration and hours recorded, hours_remaining is left
\* as it is, the operation reports 'Failed to end session' and no
\* notification is sent.  The same holds of the store for as long as an
\* operation stands between its two writes.
C11_NoRollback ==
    [][\A p \in Tabs :
          (pc[p] = "endSub" /\ pc'[p] = "idle")
          => LET row == sessions'[loc[p].sessionId] IN
             /\ toast'[p] = "Failed to end session"
             /\ sessions' = sessions
             /\ subs' = subs
             /\ row.status = "completed"
             /\ row.end_time # Null
             /\ row.duration_minutes # Null
             /\ row.hours_deducted # Null
             /\ webhook'[p] = "none"]_vars

\* C11 witness: the only operation so far, an end of the session linked to
\* subscription 1, has failed after completing the session with at least one
\* hour deducted, and subscription 1 has the balance it started with
C11_Witness ==
    /\ ops = 1
    /\ \E p \in Tabs :
          pc[p] = "idle" /\ toast[p] = EndFailed /\ webhook[p] = "none"
    /\ sessions[1].status = "completed"
    /\ sessions[1].user_subscription_id = 1
    /\ sessions[1].hours_deducted >= 1
    /\ subs[1].hours_remaining \in {1, 5}

\* C12: a start operation has one possible side effect.  When it succeeds it
\* has inserted exactly one row, active, for the target user, linked to the
\* subscription that passed the checks and started by the acting staff
\* member; on every outcome it leaves the rows that exist and every
\* subscription as they are.
C12_StartOneInsert ==
    [][\A p \in Tabs :
          (pc[p] \in {"startCheck", "startSub", "startInsert"} /\ pc'[p] # pc[p])
          => /\ subs' = subs
             /\ Len(sessions') >= Len(sessions)
             /\ SubSeq(sessions', 1, Len(sessions)) = sessions
             /\ IF toast'[p] = StartOk
                  THEN /\ Len(sessions') = Len(sessions) + 1
                       /\ LET row == sessions'[Len(sessions')] IN
                            /\ row.status = "active"
                            /\ row.user_id = loc[p].userId
                            /\ row.user_id = startingSession[p]
                            /\ row.user_subscription_id = loc[p].subscriptionId
                            /\ row.user_subscription_id \in SubIds
                            /\ subs[row.user_subscription_id].user_id = row.user_id
                            /\ row.started_by = StaffId(p)
                  ELSE sessions' = sessions]_vars

\* C12 witness: the only operation so far was a start that succeeded, and
\* the store holds the initial row and one new active row of the other user
C12_Witness ==
    /\ ops = 1
    /\ Len(sessions) = 2
    /\ \E p \in Tabs :
          /\ pc[p] = "idle" /\ toast[p] = StartOk
          /\ sessions[2].started_by = StaffId(p)
    /\ sessions[2].status = "active"
    /\ sessions[2].user_id = 2
    /\ sessions[2].user_subscription_id = 2

\* C13: an end operation modifies only the targeted session row and, when
\* that session is linked to a subscription, the hours_remaining of that one
\* subscription.  No row is inserted or removed, no other session and no
\* other subscription changes, and when user_subscription_id is null no
\* subscription changes at all.
C13_EndTouchesOnlyTarget ==
    [][\A p \in Tabs :
          (pc[p] \in {"endLoad", "endUpdate", "endSub", "endWebhook"}
             /\ pc'[p] # pc[p])
          => LET sid == loc[p].sessionId
                 link == IF sid \in SessionIds
                           THEN sessions[sid].user_subscription_id
                           ELSE Null IN
             /\ DOMAIN sessions' = DOMAIN sessions
             /\ \A i \in DOMAIN sessions : i # sid => sessions'[i] = sessions[i]
             /\ sid \in SessionIds =>
                  /\ sessions'[sid].user_id = sessions[sid].user_id
                  /\ sessions'[sid].user_subscription_id = link
                  /\ sessions'[sid].start_time = sessions[sid].start_time
                  /\ sessions'[sid].started_by = sessions[sid].started_by
             /\ \A k \in SubIds : k # link => subs'[k] = subs[k]
             /\ link # Null =>
                  subs'[link] = [subs[link] EXCEPT
                                    !.hours_remaining = subs'[link].hours_remaining]
             /\ link = Null => subs' = subs]_vars

\* C13 witness: the only operation so far, an end of the session linked to
\* subscription 1, has written both rows: the session is completed and
\* subscription 1 holds the new balance, which is not a balance it started with
C13_Witness ==
    /\ ops = 1
    /\ \E p \in Tabs :
          /\ pc[p] = "endWebhook"
          /\ loc[p].sessionId = 1
          /\ loc[p].user_subscription_id = 1
          /\ subs[1].hours_remaining = loc[p].newHoursRemaining
    /\ sessions[1].status = "completed"
    /\ subs[1].hours_remaining \notin {1, 5}

\* C14: a store error leaves no half-applied start and no change before the
\* first write of an end.  A start that reports 'Failed to start session'
\* has inserted no row; an end whose load or session update fails has
\* modified neither a session nor a subscription and reports 'Failed to end
\* session'; the load of a session id that matches no row can only fail.
C14_FailureWritesNothing ==
    [][\A p \in Tabs :
          /\ (pc[p] \in {"startCheck", "startSub", "startInsert"}
                /\ toast'[p] = StartFailed)
             => sessions' = sessions /\ subs' = subs /\ pc'[p] = "idle"
          /\ (pc[p] \in {"endLoad", "endUpdate"} /\ toast'[p] = EndFailed)
             => sessions' = sessions /\ subs' = subs /\ pc'[p] = "idle"
          /\ (pc[p] = "endLoad" /\ pc'[p] # "endLoad"
                /\ loc[p].sessionId \notin SessionIds)
             => toast'[p] = EndFailed /\ sessions' = sessions /\ subs' = subs
          /\ (pc[p] \in {"startCheck", "startSub", "startInsert",
                         "endLoad", "endUpdate"}
                /\ sessions' = sessions /\ pc'[p] = "idle")
             => toast'[p] \in {StartFailed, EndFailed, AlreadyActive,
                               NoSubscription, InsufficientBalance}]_vars

\* C14 witness: two operations have run, a start that failed in one tab and
\* an end that failed in the other, and the store is the initial one: one
\* session, still active, with nothing recorded on it
C14_Witness ==
    /\ ops = 2
    /\ \E p, q \in Tabs :
          /\ pc[p] = "idle" /\ toast[p] = StartFailed
          /\ pc[q] = "idle" /\ toast[q] = EndFailed
    /\ Len(sessions) = 1
    /\ sessions[1].status = "active"
    /\ sessions[1].end_time = Null
    /\ sessions[1].hours_deducted = 0

\* C15: a start fails with 'User does not have an active subscription' only
\* if the user has no subscription that is active and not past its end_date:
\* when the subscription query is answered without a store error for a user
\* with no active session and one or several such subscriptions, the
\* operation does not report that message.
C15_NoSubscriptionOnlyIfNone ==
    [][\A p \in Tabs :
          (/\ Answers(p, "startSub")
           /\ ActiveOf(sessions, loc[p].userId) = {}
           /\ ValidOn(loc[p].userId, DayOf(now)) # {})
          => toast'[p] # NoSubscription]_vars

\* C16: the notification is the last step of an end and is attempted at most
\* once.  It is attempted only after the session update and, for a linked
\* session, the subscription update of the same operation have taken effect;
\* the attempt writes nothing to the store and ends the operation; an
\* operation that reports 'Failed to end session' has attempted none; and
\* an attempt, sent or failed, is never followed by another within the
\* operation.
C16_NotificationLastAndOnce ==
    [][\A p \in Tabs :
          /\ (webhook'[p] # webhook[p] /\ webhook'[p] # "none")
             => /\ pc[p] = "endWebhook" /\ pc'[p] = "idle"
                /\ webhook[p] = "none"
                /\ toast'[p] = EndOk
                /\ sessions[loc[p].sessionId].status = "completed"
                /\ sessions' = sessions /\ subs' = subs
          /\ (pc'[p] = "endWebhook" /\ pc[p] # "endWebhook")
             => \/ /\ pc[p] = "endSub"
                   /\ subs'[loc[p].user_subscription_id].hours_remaining
                        = loc[p].newHoursRemaining
                   /\ sessions[loc[p].sessionId].status = "completed"
                \/ /\ pc[p] = "endUpdate"
                   /\ loc[p].user_subscription_id = Null
                   /\ sessions'[loc[p].sessionId].status = "completed"
          /\ toast'[p] = EndFailed => webhook'[p] = "none"
          /\ (webhook[p] # "none" /\ webhook'[p] # webhook[p])
             => pc[p] = "idle" /\ pc'[p] # "idle" /\ webhook'[p] = "none"]_vars

\* C16 witness: the only operation so far, an end of the session linked to
\* subscription 1, has returned with its notification sent, after both
\* updates: the session is completed and the balance is a new one
C16_Witness ==
    /\ ops = 1
    /\ \E p \in Tabs :
          pc[p] = "idle" /\ webhook[p] = "sent" /\ toast[p] = EndOk
    /\ sessions[1].status = "completed"
    /\ sessions[1].user_subscription_id = 1
    /\ subs[1].hours_remaining \notin {1, 5}

\* the place of a step in its operation
Rank(at) ==
    CASE at = "startCheck" -> 1 [] at = "startSub" -> 2 [] at = "startInsert" -> 3
      [] at = "endLoad" -> 1 [] at = "endUpdate" -> 2 [] at = "endSub" -> 3
      [] at = "endWebhook" -> 4 [] OTHER -> 5

Outcomes ==
    {AlreadyActive, NoSubscription, InsufficientBalance, StartOk, StartFailed,
     EndOk, EndFailed}

\* C17: every start and every end terminates, given that each awaited call
\* returns or fails: no tab stays in an operation for ever.  It reports exactly one outcome, when it returns and not
\* before; no call is made a second time (each step moves the operation
\* forward); and the in-flight marker, startingSession or endingSession,
\* holds the operation's target while it runs and is null again on every
\* path out.
C17_Terminates ==
    /\ [](\A p \in Tabs :
            /\ pc[p] = "idle"
               => startingSession[p] = Null /\ endingSession[p] = Null
            /\ pc[p] \in {"startCheck", "startSub", "startInsert"}
               => /\ startingSession[p] = loc[p].userId
                  /\ startingSession[p] # Null
                  /\ toast[p] = NoToast
            /\ pc[p] \in {"endLoad", "endUpdate", "endSub", "endWebhook"}
               => /\ endingSession[p] = loc[p].sessionId
                  /\ endingSession[p] # Null
                  /\ toast[p] = NoToast)
    /\ [][\A p \in Tabs :
            /\ (pc[p] # "idle" /\ pc'[p] # pc[p]) => Rank(pc'[p]) > Rank(pc[p])
            /\ (pc[p] # "idle" /\ pc'[p] = "idle") => toast'[p] \in Outcomes
            /\ (pc[p] = "idle" /\ toast[p] \in Outcomes /\ toast'[p] # toast[p])
               => toast'[p] = NoToast /\ pc'[p] # "idle"]_vars
    /\ \A p \in Tabs : []<>(pc[p] = "idle")

\* C17 witness: all the operations the bound allows have run and returned,
\* an end with success in one tab and a start refused in the other, and both
\* markers are null in both tabs
C17_Witness ==
    /\ ops = MaxOps
    /\ \A p \in Tabs :
          pc[p] = "idle" /\ startingSession[p] = Null /\ endingSession[p] = Null
    /\ \E p, q \in Tabs : toast[p] = EndOk /\ toast[q] = AlreadyActive

\* C18: a session is billed at most once.  The session update of an end
\* that finds the row already completed leaves its end_time,
\* duration_minutes and hours_deducted as they are, and such an end does not
\* change the balance of the subscription.
C18_BilledAtMostOnce ==
    [][\A p \in Tabs :
          /\ (/\ pc[p] = "endUpdate" /\ pc'[p] # "endUpdate"
              /\ sessions[loc[p].sessionId].status = "completed")
             => LET old == sessions[loc[p].sessionId]
                    new == sessions'[loc[p].sessionId] IN
                /\ new.end_time = old.end_time
                /\ new.duration_minutes = old.duration_minutes
                /\ new.hours_deducted = old.hours_deducted
          /\ (pc[p] = "endSub" /\ pc'[p] # "endSub" /\ loc[p].alreadyCompleted)
             => subs' = subs]_vars

\* C20: hours_remaining never increases: in every execution, whatever the
\* order and the interleaving of starts and ends, every step leaves each
\* subscription with a balance at most the balance it held just before.
\* (Every clock reading of the model is at or after every start_time.)
C20_NeverIncreases ==
    [][\A k \in SubIds :
          subs'[k].hours_remaining <= subs[k].hours_remaining]_vars

\* the sum of hours_deducted over the first n rows of user_sessions that are
\* completed and linked to subscription k
RECURSIVE DeductedOf(_, _)
DeductedOf(k, n) ==
    IF n = 0
      THEN 0
      ELSE DeductedOf(k, n - 1)
           + (IF /\ sessions[n].user_subscription_id = k
                 /\ sessions[n].status = "completed"
                THEN sessions[n].hours_deducted
                ELSE 0)

\* C19: no deduction is lost under interleaving.  When the ends of a run,
\* however interleaved, were each the one end of its session and all
\* returned without a store error, every subscription holds max(0, its
\* initial hours_remaining - the sum of the hours_deducted recorded on the
\* completed sessions linked to it), the result of the same ends run one
\* after another.
C19_NoLostDeduction ==
    (Idle /\ clean)
    => \A k \in SubIds :
          subs[k].hours_remaining
            = Max0(initialHours[k] - DeductedOf(k, Len(sessions)))

\* the whole seconds contained in a time given in milliseconds
WholeSeconds(ms) == ms \div 1000

\* C21 as stated: for every completed session, with E the whole seconds
\* elapsed from start_time to end_time, duration_minutes * 60 >= E >
\* (duration_minutes - 1) * 60 and hours_deducted * 60 >= duration_minutes >
\* (hours_deducted - 1) * 60; hours_deducted is 0 only when E = 0 and at
\* least 1 when E > 0.
C21_BilledCoversElapsedSeconds ==
    \A i \in DOMAIN sessions :
       (sessions[i].status = "completed"
          /\ sessions[i].end_time >= sessions[i].start_time)
       => LET E == WholeSeconds(sessions[i].end_time - sessions[i].start_time)
              m == sessions[i].duration_minutes
              h == sessions[i].hours_deducted
          IN  /\ m * 60 >= E
              /\ E > (m - 1) * 60
              /\ h * 60 >= m
              /\ m > (h - 1) * 60
              /\ (h = 0 => E = 0)
              /\ (E > 0 => h >= 1)

\* C21 amended: the bounds hold of the elapsed time in milliseconds, the
\* unit the code computes in: duration_minutes * 60000 >= e >
\* (duration_minutes - 1) * 60000 and hours_deducted * 60 >= duration_minutes
\* > (hours_deducted - 1) * 60; hours_deducted is 0 exactly when e = 0.  Of
\* the whole seconds E only duration_minutes * 60 >= E >= (duration_minutes -
\* 1) * 60 holds, and a session of less than a second is billed an hour.
C21_BilledCoversElapsed ==
    \A i \in DOMAIN sessions :
       (sessions[i].status = "completed"
          /\ sessions[i].end_time >= sessions[i].start_time)
       => LET e == sessions[i].end_time - sessions[i].start_time
              E == WholeSeconds(e)
              m == sessions[i].duration_minutes
              h == sessions[i].hours_deducted
          IN  /\ m * MsPerMinute >= e
              /\ e > (m - 1) * MsPerMinute
              /\ h * 60 >= m
              /\ m > (h - 1) * 60
              /\ (h = 0 <=> e = 0)
              /\ (e > 0 => h >= 1)
              /\ m * 60 >= E
              /\ E >= (m - 1) * 60

\* C21 witness: a session ended 1 ms after its start: no whole second has
\* elapsed, and it is stored with 1 minute and 1 hour
C21_Witness ==
    \E i \in DOMAIN sessions :
       /\ sessions[i].status = "completed"
       /\ sessions[i].end_time - sessions[i].start_time = 1
       /\ WholeSeconds(sessions[i].end_time - sessions[i].start_time) = 0
       /\ sessions[i].duration_minutes = 1
       /\ sessions[i].hours_deducted = 1
====
